---- MODULE Spec2Model ----
(***************************************************************************)
(* Model of the NAU7802 driver (src/src/lib.rs and src/src/driver.rs).     *)
(*                                                                         *)
(* The two source files hold two variants of the same driver.  They differ *)
(* in get_register (lib.rs: todo!() panics before any bus traffic;         *)
(* driver.rs: one write_read transaction), in the constants of read's      *)
(* polling loop and in the decoding of the 24-bit sample.  The variable    *)
(* `variant` says which of the two is running.                             *)
(*                                                                         *)
(* The driver is sequential.  `op` is the public call in progress (or the  *)
(* last one made), `pc` the function of the driver that is to run next,    *)
(* `log` the bus transactions and delay waits of the current public call,  *)
(* in the order they were issued.  The device is the environment: its      *)
(* status bits and its sample bytes are inputs of the polls that read them *)
(* and every bus transaction may fail.                                     *)
(*                                                                         *)
(* `watch` belongs to the tests of the helpers further down.  In the tests *)
(* of the bit helpers it is the flag under test, what the last set_bit or  *)
(* clear_bit of it did, and how many other flags of its register were      *)
(* written since; in the tests of sequences of setter calls it is the      *)
(* value each field was last set to.                                       *)
(***************************************************************************)
EXTENDS Integers, Sequences, FiniteSets, TLC

VARIABLES variant, regs, op, pc, args, attempt, log, result, value, handle, bringup,
          watch

vars ==
    <<variant, regs, op, pc, args, attempt, log, result, value, handle, bringup, watch>>

(***************************************************************************)
(* Bounds of the model.                                                    *)
(***************************************************************************)
\* calibrate's loop has no cap: the model stops following a calibration
\* after this many in-progress checks.
MaxCalChecks == 2

\* The writes of other flags a test of the bit helpers makes between the
\* write of the flag under test and its read.
MaxInterleaved == 2

\* The calls a test of a sequence of setter calls makes.
MaxCalls == 3

\* Register contents before the driver first touches the device.
InitBytes == {0, 255}

\* Bytes the device may deliver in a 3-byte sample: the most significant
\* byte, and the two bytes after it.
SampleHigh == {0, 1, 127, 128, 255}
SampleLow == {0, 1, 255}

\* The settings the caller of this model asks for, out of LdoValues,
\* GainValues and SpsValues below; new's defaults (Ldo::L3v3 = 4,
\* Gain::G128 = 7, SamplesPerSecond::SPS10 = 0) are among them.
LdoChoices == {3, 4}
GainChoices == {0, 7}
SpsChoices == {0, 7}

(***************************************************************************)
(* The register map and the field encodings (constants.rs).                *)
(***************************************************************************)
Variants == {"lib", "driver"}

Registers == {"PuCtrl", "Ctrl1", "Ctrl2", "AdcoB2", "Adc", "PgaPwr"}

\* PuCtrlBits
RR == 0
PUD == 1
PUA == 2
PUR == 3
CR == 5
AVDDS == 7
\* Ctrl2RegisterBits
Cals == 2
CalError == 3
\* PgaPwrRegisterBits
CapEn == 7

LdoValues == 0 .. 7
GainValues == 0 .. 7
SpsValues == {0, 1, 2, 3, 7}

(***************************************************************************)
(* u8 arithmetic.                                                          *)
(***************************************************************************)
Bit(v, i) == (v \div (2 ^ i)) % 2

RECURSIVE AndFrom(_, _, _)
AndFrom(a, b, i) ==
    IF i > 7 THEN 0 ELSE (2 ^ i) * Bit(a, i) * Bit(b, i) + AndFrom(a, b, i + 1)

\* a & b
BitAnd(a, b) == AndFrom(a, b, 0)

\* !a
Not8(a) == 255 - a

\* a | b
BitOr(a, b) == 255 - BitAnd(Not8(a), Not8(b))

\* a << n on a u8: the bits shifted past bit 7 are lost
Shl8(a, n) == (a * (2 ^ n)) % 256

(***************************************************************************)
(* The bus.  A machine record m threads the state of one driver function   *)
(* through its calls: the device registers, the log, the outcome so far    *)
(* (res), the byte or flag last read (val, b), the decoded sample (out),   *)
(* the number n of bus transactions this function has issued and the       *)
(* input f: the f-th transaction fails (0: none does).                     *)
(***************************************************************************)
\* what value holds when the last call returned no sample
NoValue == 2 ^ 24

Entry(k, reg, val, ok, step) ==
    [k |-> k, reg |-> reg, val |-> val, ok |-> ok, step |-> step]

Machine(v, r, l, f, step) ==
    [variant |-> v, regs |-> r, log |-> l, f |-> f, step |-> step, n |-> 0,
     res |-> "ok", val |-> 0, b |-> FALSE, st |-> "none", out |-> NoValue]

\* one transaction of the transport: it fails when it is the f-th
Transact(m, k, reg, val, err) ==
    IF m.n + 1 = m.f
    THEN [m EXCEPT !.n = @ + 1,
                   !.log = Append(@, Entry(k, reg, 0, FALSE, m.step)),
                   !.res = err]
    ELSE [m EXCEPT !.n = @ + 1,
                   !.log = Append(@, Entry(k, reg, val, TRUE, m.step))]

\* self.delay.delay_us(us) / delay_ms(us / 1000)
Delay(m, us) ==
    [m EXCEPT !.log = Append(@, Entry("delay", "-", us, TRUE, m.step))]

set_register(m, reg, val) ==
    LET t == Transact(m, "write", reg, val, "SettingRegister")
    IN  IF t.res # "ok" THEN t ELSE [t EXCEPT !.regs[reg] = val]

get_register(m, reg) ==
    IF m.variant = "lib"
    THEN [m EXCEPT !.res = "panic"]
    ELSE LET t == Transact(m, "write_read", reg, m.regs[reg], "GettingRegister")
         IN  IF t.res # "ok" THEN t ELSE [t EXCEPT !.val = m.regs[reg]]

request_register(m, reg) ==
    Transact(m, "request", reg, 0, "RequestingRegister")

(***************************************************************************)
(* Bit and field helpers.                                                  *)
(***************************************************************************)
\* set_bit that writes the bit alone, not the byte it read with the bit set
set_bit_Overwrite(m, addr, bit_idx) ==
    LET g == get_register(m, addr)
    IN  IF g.res # "ok" THEN g ELSE set_register(g, addr, Shl8(1, bit_idx))

\* set_bit that goes on to its write when its read has failed
set_bit_WriteAnyway(m, addr, bit_idx) ==
    LET g == get_register(m, addr)
    IN  set_register([g EXCEPT !.res = "ok"], addr, BitOr(g.val, Shl8(1, bit_idx)))

set_bit(m, addr, bit_idx) ==
    LET g == get_register(m, addr)
    IN  IF g.res # "ok" THEN g
        ELSE set_register(g, addr, BitOr(g.val, Shl8(1, bit_idx)))

clear_bit(m, addr, bit_idx) ==
    LET g == get_register(m, addr)
    IN  IF g.res # "ok" THEN g
        ELSE set_register(g, addr, BitAnd(g.val, Not8(Shl8(1, bit_idx))))

get_bit(m, addr, bit_idx) ==
    LET g == get_register(m, addr)
    IN  IF g.res # "ok" THEN g
        ELSE [g EXCEPT !.b = (BitAnd(g.val, Shl8(1, bit_idx)) # 0)]

\* a field write that does not clear the field before it ORs the value in
set_function_helper_NoMask(m, reg, mask, start_idx, new_val) ==
    LET g == get_register(m, reg)
    IN  IF g.res # "ok" THEN g
        ELSE set_register(g, reg, BitOr(g.val, Shl8(new_val, start_idx)))

set_function_helper(m, reg, mask, start_idx, new_val) ==
    LET g == get_register(m, reg)
    IN  IF g.res # "ok" THEN g
        ELSE set_register(g, reg, BitOr(BitAnd(g.val, mask), Shl8(new_val, start_idx)))

(***************************************************************************)
(* Constants of the driver functions.                                      *)
(***************************************************************************)
SPS_MASK == 143
SPS_START_BIT_IDX == 4
GAIN_MASK == 248
GAIN_START_BIT == 0
LDO_MASK == 199
LDO_START_BIT == 3
TURN_OFF_CLK_CHPL == 48

ResetDelayMs == 1
PowerUpSettleUs == 200
\* a loop that runs once more than `for attempt in 0..5`
PowerUpAttempts_OneMore == 5 + 1
PowerUpAttempts == 5
PowerUpBackoffUs == 5
CalDelayMs == 1
LibReadCap == 10
LibReadDelayMs == 10
DriverReadCap == 4
DriverReadDelayMs == 100

\* the constant read compares its attempt counter against
ReadCap(v) == IF v = "lib" THEN LibReadCap ELSE DriverReadCap

\* the wait of read after a poll that found no data
ReadDelayMs(v) == IF v = "lib" THEN LibReadDelayMs ELSE DriverReadDelayMs

(***************************************************************************)
(* The driver's functions, on machine records.  A function whose source    *)
(* holds a loop is given as the code before the loop and one iteration of  *)
(* the loop; st says how the iteration left the loop body.                 *)
(***************************************************************************)
reset(m) ==
    LET a == set_bit(m, "PuCtrl", RR)
    IN  IF a.res # "ok" THEN a
        ELSE clear_bit(Delay(a, 1000 * ResetDelayMs), "PuCtrl", RR)

is_powered_up(m) == get_bit(m, "PuCtrl", PUR)

\* power_up up to its for loop
power_up(m) ==
    LET a == set_bit(m, "PuCtrl", PUD)
    IN  IF a.res # "ok" THEN a
        ELSE LET c == set_bit(a, "PuCtrl", PUA)
             IN  IF c.res # "ok" THEN c ELSE Delay(c, PowerUpSettleUs)

\* power_up's loop taking a check that failed for one that found the bit clear
power_up_attempt_Retry(m, att) ==
    LET g == is_powered_up(m)
    IN  IF g.res = "ok" /\ g.b THEN [g EXCEPT !.st = "return"]
        ELSE [Delay([g EXCEPT !.res = "ok"], PowerUpBackoffUs * att) EXCEPT !.st = "continue"]

\* power_up's loop with the backoff wait before the check, not after it
power_up_attempt_WaitFirst(m, att) ==
    LET g == is_powered_up(Delay(m, PowerUpBackoffUs * att))
    IN  IF g.res # "ok" THEN g
        ELSE IF g.b THEN [g EXCEPT !.st = "return"]
        ELSE [g EXCEPT !.st = "continue"]

\* one iteration of power_up's for loop, with the loop variable att
power_up_attempt(m, att) ==
    LET g == is_powered_up(m)
    IN  IF g.res # "ok" THEN g
        ELSE IF g.b THEN [g EXCEPT !.st = "return"]
        ELSE [Delay(g, PowerUpBackoffUs * att) EXCEPT !.st = "continue"]

\* set_ldo that sets AVDDS before it writes the field
set_ldo_BitFirst(m, ldo) ==
    LET a == set_bit(m, "PuCtrl", AVDDS)
    IN  IF a.res # "ok" THEN a
        ELSE set_function_helper(a, "Ctrl1", LDO_MASK, LDO_START_BIT, ldo)

set_ldo(m, ldo) ==
    LET a == set_function_helper(m, "Ctrl1", LDO_MASK, LDO_START_BIT, ldo)
    IN  IF a.res # "ok" THEN a ELSE set_bit(a, "PuCtrl", AVDDS)

\* set_gain with a mask that clears the LDO field too
set_gain_WideMask(m, gain) ==
    set_function_helper(m, "Ctrl1", 192, GAIN_START_BIT, gain)

set_gain(m, gain) ==
    set_function_helper(m, "Ctrl1", GAIN_MASK, GAIN_START_BIT, gain)

set_sample_rate(m, sps) ==
    set_function_helper(m, "Ctrl2", SPS_MASK, SPS_START_BIT_IDX, sps)

misc_init(m) ==
    LET a == set_register(m, "Adc", TURN_OFF_CLK_CHPL)
    IN  IF a.res # "ok" THEN a ELSE set_bit(a, "PgaPwr", CapEn)

\* calibration_status that reads the error bit and reports Success whatever it is
calibration_status_ErrorIgnored(m) ==
    LET g == get_bit(m, "Ctrl2", Cals)
    IN  IF g.res # "ok" THEN g
        ELSE IF g.b THEN [g EXCEPT !.st = "InProgress"]
        ELSE LET e == get_bit(g, "Ctrl2", CalError)
             IN  IF e.res # "ok" THEN e ELSE [e EXCEPT !.st = "Success"]

calibration_status(m) ==
    LET g == get_bit(m, "Ctrl2", Cals)
    IN  IF g.res # "ok" THEN g
        ELSE IF g.b THEN [g EXCEPT !.st = "InProgress"]
        ELSE LET e == get_bit(g, "Ctrl2", CalError)
             IN  IF e.res # "ok" THEN e
                 ELSE IF e.b THEN [e EXCEPT !.res = "CalibrationFailure"]
                 ELSE [e EXCEPT !.st = "Success"]

\* calibrate up to its while loop
calibrate(m) == set_bit(m, "Ctrl2", Cals)

\* one evaluation of the while condition of calibrate, and the loop body
calibrate_attempt(m) ==
    LET s == calibration_status(m)
    IN  IF s.res # "ok" THEN s
        ELSE IF s.st = "InProgress" THEN Delay(s, 1000 * CalDelayMs)
        ELSE s

data_available(m) == get_bit(m, "PuCtrl", CR)

\* read with `attempt > cap` for `attempt >= cap`
read_attempt_OffByOne(m, att) ==
    LET g == get_bit(m, "PuCtrl", CR)
    IN  IF g.res # "ok" THEN g
        ELSE IF g.b THEN [g EXCEPT !.st = "ready"]
        ELSE IF att > ReadCap(m.variant) THEN [g EXCEPT !.res = "ReadTimeout"]
        ELSE [Delay(g, 1000 * ReadDelayMs(m.variant)) EXCEPT !.st = "continue"]

\* read that waits before it looks at what the poll found
read_attempt_WaitFirst(m, att) ==
    LET g == get_bit(m, "PuCtrl", CR)
    IN  IF g.res # "ok" THEN g
        ELSE IF g.b
        THEN [Delay(g, 1000 * ReadDelayMs(m.variant)) EXCEPT !.st = "ready"]
        ELSE IF att >= ReadCap(m.variant) THEN [g EXCEPT !.res = "ReadTimeout"]
        ELSE [Delay(g, 1000 * ReadDelayMs(m.variant)) EXCEPT !.st = "continue"]

\* one evaluation of the while condition of read, and the loop body
read_attempt(m, att) ==
    LET g == data_available(m)
    IN  IF g.res # "ok" THEN g
        ELSE IF g.b THEN [g EXCEPT !.st = "ready"]
        ELSE IF att >= ReadCap(m.variant) THEN [g EXCEPT !.res = "ReadTimeout"]
        ELSE [Delay(g, 1000 * ReadDelayMs(m.variant)) EXCEPT !.st = "continue"]

\* byteorder::BigEndian::read_u24
read_u24(buf) == buf[1] * 65536 + buf[2] * 256 + buf[3]

\* byteorder::BigEndian::read_i24
read_i24(buf) ==
    IF read_u24(buf) >= 8388608 THEN read_u24(buf) - 16777216 ELSE read_u24(buf)

\* the decoding of the sample: read_i24 in lib.rs, read_u24 in driver.rs
Decode(v, buf) == IF v = "lib" THEN read_i24(buf) ELSE read_u24(buf)

\* read_unchecked that goes on to the 3-byte read when the address write failed
read_unchecked_ReadAnyway(m, buf) ==
    LET r == request_register(m, "AdcoB2")
        d == Transact([r EXCEPT !.res = "ok"], "read3", "AdcoB2", read_u24(buf),
                      "ReadingData")
    IN  IF d.res # "ok" THEN d
        ELSE [d EXCEPT !.out = Decode(m.variant, buf)]

\* buf: the three bytes the device delivers
read_unchecked(m, buf) ==
    LET r == request_register(m, "AdcoB2")
    IN  IF r.res # "ok" THEN r
        ELSE LET d == Transact(r, "read3", "AdcoB2", read_u24(buf), "ReadingData")
             IN  IF d.res # "ok" THEN d
                 ELSE [d EXCEPT !.out = Decode(m.variant, buf)]

(***************************************************************************)
(* new_with_settings: the order of the bring-up steps.                     *)
(***************************************************************************)
\* the function pc is in
Fn(p) ==
    CASE p = "power_up_loop" -> "power_up"
      [] p = "calibrate_loop" -> "calibrate"
      [] OTHER -> p

\* new_with_settings with the gain step before the LDO step
NextStep_GainFirst(s) ==
    CASE s = "reset" -> "power_up"
      [] s = "power_up" -> "set_gain"
      [] s = "set_gain" -> "set_ldo"
      [] s = "set_ldo" -> "set_sample_rate"
      [] s = "set_sample_rate" -> "misc_init"
      [] s = "misc_init" -> "calibrate"
      [] OTHER -> "done"

\* new_with_settings without its calibration step
NextStep_NoCalibration(s) ==
    CASE s = "reset" -> "power_up"
      [] s = "power_up" -> "set_ldo"
      [] s = "set_ldo" -> "set_gain"
      [] s = "set_gain" -> "set_sample_rate"
      [] s = "set_sample_rate" -> "misc_init"
      [] OTHER -> "done"

\* the step new_with_settings runs after step s has returned Ok
NextStep(s) ==
    CASE s = "reset" -> "power_up"
      [] s = "power_up" -> "set_ldo"
      [] s = "set_ldo" -> "set_gain"
      [] s = "set_gain" -> "set_sample_rate"
      [] s = "set_sample_rate" -> "misc_init"
      [] s = "misc_init" -> "calibrate"
      [] OTHER -> "done"

NoArgs == [ldo |-> 0, gain |-> 0, sps |-> 0, bit |-> 0]

\* no flag is under test
NoWatch == [reg |-> "-", bit |-> 0, known |-> "unknown", others |-> 0]

NoBringup ==
    [reset |-> FALSE, powered |-> FALSE, ldo |-> FALSE, gain |-> FALSE,
     sps |-> FALSE, misc |-> FALSE, calibrated |-> FALSE]

\* the successful bus transactions of kind k on register reg that step made
Done(l, step, k, reg) ==
    {i \in DOMAIN l : l[i].step = step /\ l[i].k = k /\ l[i].reg = reg /\ l[i].ok}

\* What the log of a construction shows the device to have gone through.
Observed(l, a) ==
    [reset |->
        \E i, j \in Done(l, "reset", "write", "PuCtrl") :
            i < j /\ Bit(l[i].val, RR) = 1 /\ Bit(l[j].val, RR) = 0,
     powered |->
        \E i \in Done(l, "power_up", "write_read", "PuCtrl") : Bit(l[i].val, PUR) = 1,
     ldo |->
        /\ \E i \in Done(l, "set_ldo", "write", "Ctrl1") : (l[i].val \div 8) % 8 = a.ldo
        /\ \E i \in Done(l, "set_ldo", "write", "PuCtrl") : Bit(l[i].val, AVDDS) = 1,
     gain |->
        \E i \in Done(l, "set_gain", "write", "Ctrl1") : l[i].val % 8 = a.gain,
     sps |->
        \E i \in Done(l, "set_sample_rate", "write", "Ctrl2") :
            (l[i].val \div 16) % 8 = a.sps,
     misc |->
        /\ \E i \in Done(l, "misc_init", "write", "Adc") : l[i].val = TURN_OFF_CLK_CHPL
        /\ \E i \in Done(l, "misc_init", "write", "PgaPwr") : Bit(l[i].val, CapEn) = 1,
     calibrated |->
        /\ Len(l) >= 2
        /\ {Len(l) - 1, Len(l)} \subseteq Done(l, "calibrate", "write_read", "Ctrl2")
        /\ Bit(l[Len(l) - 1].val, Cals) = 0
        /\ Bit(l[Len(l)].val, CalError) = 0]

(***************************************************************************)
(* The device's side of a poll: the status bit it shows.                   *)
(***************************************************************************)
DeviceShows(r, reg, bit, b) ==
    [r EXCEPT ![reg] = IF b THEN @ + (1 - Bit(@, bit)) * (2 ^ bit)
                            ELSE @ - Bit(@, bit) * (2 ^ bit)]

(***************************************************************************)
(* Control flow between the functions.                                     *)
(***************************************************************************)
\* the function at pc returned m.res: to new_with_settings when that is the
\* call in progress, else to the caller of the public function
Return(m) ==
    /\ regs' = m.regs
    /\ log' = m.log
    /\ attempt' = 0
    /\ UNCHANGED <<variant, op, watch>>
    /\ IF m.res # "ok"
       THEN /\ pc' = "idle"
            /\ result' = m.res
            /\ value' = NoValue
            /\ args' = NoArgs
            /\ UNCHANGED <<handle, bringup>>
       ELSE IF op = "new" /\ NextStep(Fn(pc)) # "done"
       THEN /\ pc' = NextStep(Fn(pc))
            /\ UNCHANGED <<result, value, args, handle, bringup>>
       ELSE /\ pc' = "idle"
            /\ result' = "ok"
            /\ value' = m.out
            /\ args' = NoArgs
            /\ handle' = (handle \/ op = "new")
            /\ bringup' = IF op = "new" THEN Observed(m.log, args) ELSE bringup

\* the function at pc goes on at p, its loop counter at att
Goto(m, p, att) ==
    /\ regs' = m.regs
    /\ log' = m.log
    /\ pc' = p
    /\ attempt' = att
    /\ UNCHANGED <<variant, op, args, result, value, handle, bringup, watch>>

Start(f) == Machine(variant, regs, log, f, Fn(pc))

StartOn(r, f) == Machine(variant, r, log, f, Fn(pc))

(***************************************************************************)
(* The caller.                                                             *)
(***************************************************************************)
Call(o, p, a) ==
    /\ pc = "idle"
    /\ op' = o
    /\ pc' = p
    /\ args' = a
    /\ log' = <<>>
    /\ attempt' = 0
    /\ result' = "none"
    /\ value' = NoValue
    /\ UNCHANGED <<variant, regs, handle, bringup, watch>>

\* the settings new hands to new_with_settings: Ldo::L3v3, Gain::G128,
\* SamplesPerSecond::SPS10
DefaultSettings == [ldo |-> 4, gain |-> 7, sps |-> 0]

\* new is new_with_settings with the default settings
CallNew ==
    /\ op = "none"
    /\ \E ldo \in LdoChoices, gain \in GainChoices, sps \in SpsChoices :
          Call("new", "reset", [ldo |-> ldo, gain |-> gain, sps |-> sps])

CallRead == handle /\ Call("read", "read", NoArgs)

CallCalibrate == handle /\ Call("calibrate", "calibrate", NoArgs)

CallSetLdo ==
    /\ handle
    /\ \E ldo \in LdoChoices : Call("set_ldo", "set_ldo", [NoArgs EXCEPT !.ldo = ldo])

CallSetGain ==
    /\ handle
    /\ \E gain \in GainChoices : Call("set_gain", "set_gain", [NoArgs EXCEPT !.gain = gain])

CallSetSampleRate ==
    /\ handle
    /\ \E sps \in SpsChoices :
          Call("set_sample_rate", "set_sample_rate", [NoArgs EXCEPT !.sps = sps])

(***************************************************************************)
(* The driver.                                                             *)
(***************************************************************************)
Reset ==
    /\ pc = "reset"
    /\ \E f \in 0 .. 4 : Return(reset(Start(f)))

PowerUp ==
    /\ pc = "power_up"
    /\ \E f \in 0 .. 4 :
          LET m == power_up(Start(f))
          IN  IF m.res # "ok" THEN Return(m) ELSE Goto(m, "power_up_loop", 0)

PowerUpAttempt ==
    /\ pc = "power_up_loop"
    /\ \E f \in 0 .. 1, pur \in BOOLEAN :
          LET m == power_up_attempt(StartOn(DeviceShows(regs, "PuCtrl", PUR, pur), f),
                                    attempt)
          IN  IF m.res # "ok" \/ m.st = "return" THEN Return(m)
              ELSE IF attempt + 1 < PowerUpAttempts
              THEN Goto(m, "power_up_loop", attempt + 1)
              ELSE Return([m EXCEPT !.res = "PowerupFailed"])

SetLdo ==
    /\ pc = "set_ldo"
    /\ \E f \in 0 .. 4 : Return(set_ldo(Start(f), args.ldo))

SetGain ==
    /\ pc = "set_gain"
    /\ \E f \in 0 .. 2 : Return(set_gain(Start(f), args.gain))

SetSampleRate ==
    /\ pc = "set_sample_rate"
    /\ \E f \in 0 .. 2 : Return(set_sample_rate(Start(f), args.sps))

MiscInit ==
    /\ pc = "misc_init"
    /\ \E f \in 0 .. 3 : Return(misc_init(Start(f)))

Calibrate ==
    /\ pc = "calibrate"
    /\ \E f \in 0 .. 2 :
          LET m == calibrate(Start(f))
          IN  IF m.res # "ok" THEN Return(m) ELSE Goto(m, "calibrate_loop", 0)

\* calibrate with a cap like power_up's: it gives up after the second check
\* that found the calibration in progress
CalibrateAttempt_Capped ==
    /\ pc = "calibrate_loop"
    /\ attempt < MaxCalChecks
    /\ \E f \in 0 .. 2, finished \in BOOLEAN, err \in BOOLEAN :
          LET r1 == IF finished THEN DeviceShows(regs, "Ctrl2", Cals, FALSE) ELSE regs
              m == calibrate_attempt(StartOn(DeviceShows(r1, "Ctrl2", CalError, err), f))
          IN  IF m.res = "ok" /\ m.st = "InProgress"
              THEN IF attempt + 1 < 2
                   THEN Goto(m, "calibrate_loop", attempt + 1)
                   ELSE Return([m EXCEPT !.res = "CalibrationFailure"])
              ELSE Return(m)

\* the device may have finished the calibration (it clears Cals itself) and
\* shows any CalError
CalibrateAttempt ==
    /\ pc = "calibrate_loop"
    /\ attempt < MaxCalChecks
    /\ \E f \in 0 .. 2, finished \in BOOLEAN, err \in BOOLEAN :
          LET r1 == IF finished THEN DeviceShows(regs, "Ctrl2", Cals, FALSE) ELSE regs
              m == calibrate_attempt(StartOn(DeviceShows(r1, "Ctrl2", CalError, err), f))
          IN  IF m.res = "ok" /\ m.st = "InProgress"
              THEN Goto(m, "calibrate_loop", attempt + 1)
              ELSE Return(m)

ReadAttempt ==
    /\ pc = "read"
    /\ \E f \in 0 .. 1, cr \in BOOLEAN :
          LET m == read_attempt(StartOn(DeviceShows(regs, "PuCtrl", CR, cr), f), attempt)
          IN  IF m.res # "ok" THEN Return(m)
              ELSE IF m.st = "ready" THEN Goto(m, "read_unchecked", attempt)
              ELSE Goto(m, "read", attempt + 1)

ReadUnchecked ==
    /\ pc = "read_unchecked"
    /\ \E f \in 0 .. 2, b2 \in SampleHigh, b1 \in SampleLow, b0 \in SampleLow :
          Return(read_unchecked(Start(f), <<b2, b1, b0>>))

(***************************************************************************)
(* The program: a caller that constructs the driver once and then uses the *)
(* handle it was given.                                                    *)
(***************************************************************************)
Init ==
    /\ variant \in Variants
    /\ \E v \in InitBytes : regs = [r \in Registers |-> v]
    /\ op = "none"
    /\ pc = "idle"
    /\ args = NoArgs
    /\ attempt = 0
    /\ log = <<>>
    /\ result = "none"
    /\ value = NoValue
    /\ handle = FALSE
    /\ bringup = NoBringup
    /\ watch = NoWatch

Next ==
    \/ CallNew
    \/ Reset
    \/ PowerUp
    \/ PowerUpAttempt
    \/ SetLdo
    \/ SetGain
    \/ SetSampleRate
    \/ MiscInit
    \/ Calibrate
    \/ CalibrateAttempt
    \/ ReadAttempt
    \/ ReadUnchecked
    \/ CallRead
    \/ CallCalibrate
    \/ CallSetLdo
    \/ CallSetGain
    \/ CallSetSampleRate

Spec == Init /\ [][Next]_vars

(***************************************************************************)
(* Reading the log.                                                        *)
(***************************************************************************)
Steps ==
    {"reset", "power_up", "set_ldo", "set_gain", "set_sample_rate", "misc_init",
     "calibrate"}

\* the place of a step in the bring-up sequence the specification gives
StepNo(s) ==
    CASE s = "reset" -> 1
      [] s = "power_up" -> 2
      [] s = "set_ldo" -> 3
      [] s = "set_gain" -> 4
      [] s = "set_sample_rate" -> 5
      [] s = "misc_init" -> 6
      [] s = "calibrate" -> 7
      [] OTHER -> 0

\* the registers a step may address
StepRegs(s) ==
    CASE s = "reset" -> {"PuCtrl"}
      [] s = "power_up" -> {"PuCtrl"}
      [] s = "set_ldo" -> {"Ctrl1", "PuCtrl"}
      [] s = "set_gain" -> {"Ctrl1"}
      [] s = "set_sample_rate" -> {"Ctrl2"}
      [] s = "misc_init" -> {"Adc", "PgaPwr"}
      [] s = "calibrate" -> {"Ctrl2"}
      [] OTHER -> {}

\* the error kind that wraps the transport error of a failed transaction
TransportError(e) ==
    CASE e.k = "write" -> "SettingRegister"
      [] e.k = "write_read" -> "GettingRegister"
      [] e.k = "request" -> "RequestingRegister"
      [] OTHER -> "ReadingData"

Failed == {i \in DOMAIN log : ~log[i].ok}

Of(k) == {i \in DOMAIN log : log[i].k = k}

(***************************************************************************)
(* C1: new_with_settings issues its bus operations in the order reset,     *)
(* power-up, LDO, gain, sample rate, misc init, calibration: the steps of  *)
(* the log never go back, no step is skipped and each step addresses only  *)
(* its own registers.  A failed transaction is the last entry of the log,  *)
(* the constructor has then returned its error and holds no handle, and a  *)
(* constructor that has returned an error issues nothing more.             *)
(***************************************************************************)
C1_Ordered ==
    op = "new" =>
        /\ \A i \in DOMAIN log :
              /\ log[i].step \in Steps
              /\ log[i].k # "delay" => log[i].reg \in StepRegs(log[i].step)
              /\ pc # "idle" => StepNo(log[i].step) <= StepNo(Fn(pc))
              /\ \A s \in Steps :
                    StepNo(s) < StepNo(log[i].step) =>
                        \E j \in 1 .. (i - 1) : log[j].step = s /\ log[j].ok
        /\ \A i, j \in DOMAIN log :
              i < j => StepNo(log[i].step) <= StepNo(log[j].step)
        /\ \A i \in Failed :
              i = Len(log) /\ pc = "idle" /\ result = TransportError(log[i])
        /\ result \notin {"none", "ok"} => pc = "idle" /\ ~handle
        /\ result = "ok" => \A s \in Steps : \E i \in DOMAIN log : log[i].step = s

C1_Aborted == op = "new" /\ pc = "idle" /\ result # "ok"

C1_StepOrderAndAbort == [](C1_Ordered) /\ [][C1_Aborted => log' = log /\ pc' = pc]_vars

\* the gain write failed: the log ends there, after reset, power-up and LDO
C1_Witness ==
    /\ op = "new"
    /\ result = "SettingRegister"
    /\ Len(log) > 0
    /\ log[Len(log)].step = "set_gain"
    /\ \E i \in DOMAIN log : log[i].step = "set_ldo"

(***************************************************************************)
(* C2: whenever a caller holds a handle, the construction that gave it has *)
(* reset the device, seen the power-up ready bit set, programmed the LDO,  *)
(* gain and sample-rate fields, made the two misc-init writes and ended a  *)
(* calibration with the start bit and the error bit read clear.            *)
(***************************************************************************)
C2_HandleIsBroughtUp ==
    handle =>
        /\ bringup.reset
        /\ bringup.powered
        /\ bringup.ldo
        /\ bringup.gain
        /\ bringup.sps
        /\ bringup.misc
        /\ bringup.calibrated

\* a caller that holds the handle has read a sample through it
C2_Witness == handle /\ op = "read" /\ result = "ok"

(***************************************************************************)
(* C3: power_up reads the ready bit at most 5 times.  It fails with        *)
(* PowerupFailed exactly when 5 reads have all found the bit clear; a read *)
(* that finds it set is the last read of power_up, which then returns Ok   *)
(* (the constructor goes on to the LDO step) without another wait.         *)
(***************************************************************************)
\* the reads of the ready bit: those after power_up's 200 us wait
PuPolls ==
    {i \in DOMAIN log :
        /\ log[i].step = "power_up"
        /\ log[i].k = "write_read"
        /\ \E j \in 1 .. (i - 1) : log[j].step = "power_up" /\ log[j].k = "delay"}

PuClear(i) == log[i].ok /\ Bit(log[i].val, PUR) = 0

PuSet(i) == log[i].ok /\ Bit(log[i].val, PUR) = 1

C3_PowerUpFivePolls ==
    op = "new" =>
        /\ Cardinality(PuPolls) <= 5
        /\ result = "PowerupFailed" =>
              /\ Cardinality(PuPolls) = 5
              /\ \A i \in PuPolls : PuClear(i)
              /\ log[Len(log)].step = "power_up"
        /\ (Cardinality(PuPolls) = 5 /\ \A i \in PuPolls : PuClear(i)) =>
              result = "PowerupFailed" /\ pc = "idle"
        /\ \A i \in PuPolls :
              PuSet(i) =>
                  /\ \A j \in DOMAIN log : j > i => log[j].step # "power_up"
                  /\ result # "PowerupFailed"
                  /\ pc = "set_ldo" \/ \E j \in DOMAIN log : log[j].step = "set_ldo"

C3_Witness ==
    /\ op = "new"
    /\ result = "PowerupFailed"
    /\ Cardinality(PuPolls) = 5

(***************************************************************************)
(* C4 as stated: a read that ends in ReadTimeout has polled the ready bit  *)
(* exactly as often as the constant its attempt counter is compared with   *)
(* (10 in lib.rs, 4 in driver.rs), with no priming write and no burst      *)
(* read.                                                                   *)
(***************************************************************************)
ClaimedCap == IF variant = "lib" THEN 10 ELSE 4

ReadPolls == {i \in Of("write_read") : log[i].reg = "PuCtrl"}

CrClear(i) == log[i].ok /\ Bit(log[i].val, CR) = 0

CrSet(i) == log[i].ok /\ Bit(log[i].val, CR) = 1

C4_TimeoutAfterCapPolls ==
    (op = "read" /\ result = "ReadTimeout") =>
        /\ Cardinality(ReadPolls) = ClaimedCap
        /\ Of("request") = {}
        /\ Of("read3") = {}

(***************************************************************************)
(* C4 amended: read polls the ready bit at most cap + 1 times.  It fails   *)
(* with ReadTimeout exactly when cap + 1 polls have all found the bit      *)
(* clear, after cap waits, with no priming write and no burst read.        *)
(***************************************************************************)
C4_TimeoutAfterCapPlusOnePolls ==
    op = "read" =>
        /\ Cardinality(ReadPolls) <= ClaimedCap + 1
        /\ result = "ReadTimeout" =>
              /\ Cardinality(ReadPolls) = ClaimedCap + 1
              /\ \A i \in ReadPolls : CrClear(i)
              /\ Cardinality(Of("delay")) = ClaimedCap
              /\ Of("request") = {}
              /\ Of("read3") = {}
        /\ (Cardinality(ReadPolls) = ClaimedCap + 1 /\ \A i \in ReadPolls : CrClear(i)) =>
              result = "ReadTimeout" /\ pc = "idle"

C4_Witness ==
    /\ op = "read"
    /\ result = "ReadTimeout"
    /\ Cardinality(ReadPolls) = 5

(***************************************************************************)
(* C5: for k from 1 to the cap, when the k-th poll of a read is the first  *)
(* to find the ready bit set, read polls no more, has waited k - 1 times   *)
(* and goes on to read_unchecked; if no transaction fails it returns Ok    *)
(* with a value after exactly one priming write and one 3-byte read.       *)
(***************************************************************************)
C5_ReadyOnKthPoll ==
    op = "read" =>
        \A i \in ReadPolls :
            LET k == Cardinality({j \in ReadPolls : j <= i})
            IN  (CrSet(i) /\ k \in 1 .. ClaimedCap) =>
                    /\ Cardinality(ReadPolls) = k
                    /\ \A j \in ReadPolls : j < i => CrClear(j)
                    /\ Cardinality(Of("delay")) = k - 1
                    /\ pc \in {"read_unchecked", "idle"}
                    /\ result # "ReadTimeout"
                    /\ Cardinality(Of("read3")) <= 1
                    /\ (pc = "idle" /\ Failed = {}) =>
                          /\ result = "ok"
                          /\ value # NoValue
                          /\ Cardinality(Of("request")) = 1
                          /\ Cardinality(Of("read3")) = 1
                          /\ \A r \in Of("request") : \A b \in Of("read3") : i < r /\ r < b

\* the ready bit was first set on the last poll of the claim's range
C5_Witness ==
    /\ op = "read"
    /\ pc = "idle"
    /\ result = "ok"
    /\ Cardinality(ReadPolls) = ClaimedCap
    /\ Cardinality(Of("delay")) = ClaimedCap - 1
    /\ Cardinality(Of("read3")) = 1

(***************************************************************************)
(* A driver value built directly from a transport and a delay provider, as *)
(* code inside the crate can build one: the public functions run on a      *)
(* device that was never brought up.                                       *)
(***************************************************************************)
InitUnit ==
    /\ variant \in Variants
    /\ \E v \in InitBytes : regs = [r \in Registers |-> v]
    /\ op = "none"
    /\ pc = "idle"
    /\ args = NoArgs
    /\ attempt = 0
    /\ log = <<>>
    /\ result = "none"
    /\ value = NoValue
    /\ handle = TRUE
    /\ bringup = NoBringup
    /\ watch = NoWatch

NextUnit ==
    \/ CallRead
    \/ CallCalibrate
    \/ CallSetLdo
    \/ CallSetGain
    \/ CallSetSampleRate
    \/ ReadAttempt
    \/ ReadUnchecked
    \/ Calibrate
    \/ CalibrateAttempt
    \/ SetLdo
    \/ SetGain
    \/ SetSampleRate

SpecUnit == InitUnit /\ [][NextUnit]_vars

(***************************************************************************)
(* C6: a read that ends without having found the ready bit set, no         *)
(* transaction having failed, ends in ReadTimeout after asking the delay   *)
(* provider for 110 ms in all in lib.rs and 400 ms in driver.rs, which is  *)
(* more than the 100 ms a conversion can take.                             *)
(***************************************************************************)
RECURSIVE WaitUs(_)
\* the time the delay provider was asked to wait, over a log
WaitUs(l) ==
    IF l = <<>> THEN 0
    ELSE (IF Head(l).k = "delay" THEN Head(l).val ELSE 0) + WaitUs(Tail(l))

ClaimedWaitUs == IF variant = "lib" THEN 110000 ELSE 400000

C6_TimeoutBudget ==
    (op = "read" /\ pc = "idle" /\ Failed = {} /\ \A i \in ReadPolls : ~CrSet(i)) =>
        /\ result = "ReadTimeout"
        /\ WaitUs(log) = ClaimedWaitUs
        /\ WaitUs(log) > 100000

(***************************************************************************)
(* C7: a read that returns Ok returns the three bytes of its burst read,   *)
(* most significant first, as a 24-bit two's-complement number: the        *)
(* unsigned value when its top byte is below 0x80, that value less 2^24    *)
(* otherwise.                                                              *)
(***************************************************************************)
SignExtended(raw) == IF raw < 8388608 THEN raw ELSE raw - 16777216

C7_SignExtendedSample ==
    (op = "read" /\ pc = "idle" /\ result = "ok") =>
        \E i \in Of("read3") : log[i].ok /\ value = SignExtended(log[i].val)

(***************************************************************************)
(* C10: in calibrate, a status check that reads the start bit set waits    *)
(* 1 ms and checks again, whatever the error bit; one that reads it clear  *)
(* reads the error bit next and calibrate ends there: with                 *)
(* CalibrationFailure when the error bit is set, with Ok when it is clear. *)
(* calibrate returns Ok only after reading both bits clear.                *)
(***************************************************************************)
\* the reads of calibration_status: those after calibrate has set the start bit
StatusReads ==
    {i \in Of("write_read") :
        /\ log[i].step = "calibrate"
        /\ \E j \in 1 .. (i - 1) : log[j].step = "calibrate" /\ log[j].k = "write"}

\* a status read is of the start bit when it follows the write or a wait,
\* of the error bit when it follows a read of the start bit
StartReads == {i \in StatusReads : log[i - 1].k \in {"write", "delay"}}

ErrorReads == StatusReads \ StartReads

CalibrateDone == op \in {"new", "calibrate"} /\ pc = "idle"

C10_CalibrationStatus ==
    op \in {"new", "calibrate"} =>
        /\ \A i \in StartReads :
              /\ (log[i].ok /\ Bit(log[i].val, Cals) = 1) =>
                    /\ i < Len(log)
                    /\ log[i + 1].k = "delay" /\ log[i + 1].val = 1000
                    /\ i + 1 = Len(log) => pc = "calibrate_loop" /\ result = "none"
              /\ (log[i].ok /\ Bit(log[i].val, Cals) = 0) =>
                    /\ i + 1 = Len(log)
                    /\ i + 1 \in ErrorReads
                    /\ pc = "idle"
                    /\ (log[i + 1].ok /\ Bit(log[i + 1].val, CalError) = 1) =>
                          result = "CalibrationFailure"
                    /\ (log[i + 1].ok /\ Bit(log[i + 1].val, CalError) = 0) =>
                          result = "ok"
        /\ \A i \in ErrorReads :
              i - 1 \in StartReads /\ log[i - 1].ok /\ Bit(log[i - 1].val, Cals) = 0
        /\ (CalibrateDone /\ result \in {"ok", "CalibrationFailure"}) =>
              /\ Len(log) \in ErrorReads
              /\ log[Len(log)].ok
              /\ (result = "ok") = (Bit(log[Len(log)].val, CalError) = 0)

\* the device showed the error bit while the calibration ran, and again
\* once it had cleared the start bit
C10_Witness ==
    /\ op = "calibrate"
    /\ result = "CalibrationFailure"
    /\ \E i \in StartReads :
          log[i].ok /\ Bit(log[i].val, Cals) = 1 /\ Bit(log[i].val, CalError) = 1

(***************************************************************************)
(* Tests of the field writes: one setter call, with any value of its       *)
(* enumeration, on a device whose registers hold any byte.                 *)
(***************************************************************************)
InitField ==
    /\ variant \in Variants
    /\ \E v \in 0 .. 255 : regs = [r \in Registers |-> v]
    /\ op = "none"
    /\ pc = "idle"
    /\ args = NoArgs
    /\ attempt = 0
    /\ log = <<>>
    /\ result = "none"
    /\ value = NoValue
    /\ handle = TRUE
    /\ bringup = NoBringup
    /\ watch = NoWatch

\* the outcome of a helper or setter called on its own
Tested(o, a, m, v, w) ==
    /\ op' = o
    /\ args' = a
    /\ regs' = m.regs
    /\ log' = m.log
    /\ result' = m.res
    /\ value' = v
    /\ watch' = w
    /\ UNCHANGED <<variant, pc, attempt, handle, bringup>>

TestSetLdo ==
    /\ op = "none"
    /\ \E ldo \in LdoValues, f \in 0 .. 4 :
          Tested("set_ldo", [NoArgs EXCEPT !.ldo = ldo],
                 set_ldo(Machine(variant, regs, <<>>, f, "set_ldo"), ldo), NoValue, watch)

TestSetGain ==
    /\ op = "none"
    /\ \E gain \in GainValues, f \in 0 .. 2 :
          Tested("set_gain", [NoArgs EXCEPT !.gain = gain],
                 set_gain(Machine(variant, regs, <<>>, f, "set_gain"), gain), NoValue, watch)

TestSetSampleRate ==
    /\ op = "none"
    /\ \E sps \in SpsValues, f \in 0 .. 2 :
          Tested("set_sample_rate", [NoArgs EXCEPT !.sps = sps],
                 set_sample_rate(Machine(variant, regs, <<>>, f, "set_sample_rate"), sps),
                 NoValue, watch)

NextField ==
    \/ TestSetLdo
    \/ TestSetGain
    \/ TestSetSampleRate

SpecField == InitField /\ [][NextField]_vars

(***************************************************************************)
(* C8: the byte a field write writes back is (v & mask) | (new << shift),  *)
(* v being the byte it read: gain with mask 0b11111000 and shift 0 on      *)
(* Ctrl1, LDO with 0b11000111 and 3 on Ctrl1, sample rate with 0b10001111  *)
(* and 4 on Ctrl2.  So the field holds the new value and every bit outside *)
(* the field is as it was in v.                                            *)
(***************************************************************************)
Field ==
    CASE op = "set_gain" -> [reg |-> "Ctrl1", mask |-> 248, shift |-> 0, new |-> args.gain]
      [] op = "set_ldo" -> [reg |-> "Ctrl1", mask |-> 199, shift |-> 3, new |-> args.ldo]
      [] OTHER -> [reg |-> "Ctrl2", mask |-> 143, shift |-> 4, new |-> args.sps]

\* the field write of the last setter call wrote its byte
FieldWritten ==
    /\ op \in {"set_gain", "set_ldo", "set_sample_rate"}
    /\ Len(log) >= 2
    /\ log[2].ok

C8_FieldWrite ==
    FieldWritten =>
        LET v == log[1].val
            w == log[2].val
            shifted == Field.new * (2 ^ Field.shift)
        IN  /\ log[1].k = "write_read" /\ log[1].reg = Field.reg
            /\ log[2].k = "write" /\ log[2].reg = Field.reg
            /\ \A i \in 0 .. 7 :
                  /\ Bit(w, i) = 1 <=>
                        (Bit(v, i) = 1 /\ Bit(Field.mask, i) = 1) \/ Bit(shifted, i) = 1
                  /\ i \notin Field.shift .. (Field.shift + 2) => Bit(w, i) = Bit(v, i)
            /\ (w \div (2 ^ Field.shift)) % 8 = Field.new
            /\ regs[Field.reg] = w

\* the LDO field of a register of all ones was written with 0b010
C8_Witness ==
    /\ FieldWritten
    /\ op = "set_ldo"
    /\ args.ldo = 2
    /\ log[1].val = 255
    /\ log[2].val = 215

(***************************************************************************)
(* Tests of the bit helpers, on a register that only they change: one      *)
(* flag is under test; it is set or cleared, then other flags of its       *)
(* register are set and cleared, and get_bit reads it.                     *)
(***************************************************************************)
\* the flags the driver names in each register it uses the helpers on
FlagsOf(reg) ==
    CASE reg = "PuCtrl" -> {RR, PUD, PUA, PUR, CR, AVDDS}
      [] reg = "Ctrl2" -> {Cals, CalError}
      [] reg = "PgaPwr" -> {CapEn}
      [] OTHER -> {}

InitBits ==
    /\ variant \in Variants
    /\ \E v \in InitBytes : regs = [r \in Registers |-> v]
    /\ op = "none"
    /\ pc = "idle"
    /\ args = NoArgs
    /\ attempt = 0
    /\ log = <<>>
    /\ result = "none"
    /\ value = NoValue
    /\ handle = TRUE
    /\ bringup = NoBringup
    /\ \E r \in Registers : \E b \in FlagsOf(r) :
          watch = [reg |-> r, bit |-> b, known |-> "unknown", others |-> 0]

\* a write of bit may be made: of the flag under test first, of the others after
MayWrite(bit) ==
    IF bit = watch.bit THEN watch.known = "unknown"
    ELSE watch.known # "unknown" /\ watch.others < MaxInterleaved

\* watch after a write of bit that set the flag to k and returned res
Written(bit, k, res) ==
    IF res # "ok" THEN watch
    ELSE IF bit = watch.bit THEN [watch EXCEPT !.known = k]
    ELSE [watch EXCEPT !.others = @ + 1]

TestSetBit ==
    \E bit \in FlagsOf(watch.reg), f \in 0 .. 2 :
        /\ MayWrite(bit)
        /\ LET m == set_bit(Machine(variant, regs, <<>>, f, "set_bit"), watch.reg, bit)
           IN  Tested("set_bit", [NoArgs EXCEPT !.bit = bit], m, NoValue,
                      Written(bit, "set", m.res))

TestClearBit ==
    \E bit \in FlagsOf(watch.reg), f \in 0 .. 2 :
        /\ MayWrite(bit)
        /\ LET m == clear_bit(Machine(variant, regs, <<>>, f, "clear_bit"), watch.reg, bit)
           IN  Tested("clear_bit", [NoArgs EXCEPT !.bit = bit], m, NoValue,
                      Written(bit, "clear", m.res))

TestGetBit ==
    \E f \in 0 .. 1 :
        /\ watch.known # "unknown"
        /\ LET m == get_bit(Machine(variant, regs, <<>>, f, "get_bit"), watch.reg, watch.bit)
           IN  Tested("get_bit", [NoArgs EXCEPT !.bit = watch.bit], m,
                      IF m.res # "ok" THEN NoValue ELSE IF m.b THEN 1 ELSE 0, watch)

NextBits ==
    \/ TestSetBit
    \/ TestClearBit
    \/ TestGetBit

SpecBits == InitBits /\ [][NextBits]_vars

(***************************************************************************)
(* C9: get_bit returns true for a flag that set_bit set last and false for *)
(* one that clear_bit cleared last, whatever set_bit and clear_bit calls   *)
(* on other flags of the same register came in between.                    *)
(***************************************************************************)
C9_SetClearGet ==
    (op = "get_bit" /\ result = "ok") =>
        /\ watch.known = "set" => value = 1
        /\ watch.known = "clear" => value = 0

\* the flag was set, two other flags were written, and get_bit returned true
C9_Witness ==
    /\ op = "get_bit"
    /\ result = "ok"
    /\ watch.known = "set"
    /\ watch.others = 2
    /\ value = 1

(***************************************************************************)
(* Tests of the register helpers: one call of get_register, of set_bit or  *)
(* clear_bit on a flag the driver names, or of a setter (the callers of    *)
(* the field-write helper), on a device whose registers hold any byte.     *)
(***************************************************************************)
TestGetRegister ==
    /\ op = "none"
    /\ \E r \in Registers, f \in 0 .. 1 :
          LET m == get_register(Machine(variant, regs, <<>>, f, "get_register"), r)
          IN  Tested("get_register", NoArgs, m,
                     IF m.res = "ok" THEN m.val ELSE NoValue,
                     [NoWatch EXCEPT !.reg = r])

TestSetBitOnce ==
    /\ op = "none"
    /\ \E r \in Registers : \E bit \in FlagsOf(r), f \in 0 .. 2 :
          Tested("set_bit", [NoArgs EXCEPT !.bit = bit],
                 set_bit(Machine(variant, regs, <<>>, f, "set_bit"), r, bit),
                 NoValue, [NoWatch EXCEPT !.reg = r, !.bit = bit])

TestClearBitOnce ==
    /\ op = "none"
    /\ \E r \in Registers : \E bit \in FlagsOf(r), f \in 0 .. 2 :
          Tested("clear_bit", [NoArgs EXCEPT !.bit = bit],
                 clear_bit(Machine(variant, regs, <<>>, f, "clear_bit"), r, bit),
                 NoValue, [NoWatch EXCEPT !.reg = r, !.bit = bit])

NextHelper ==
    \/ TestGetRegister
    \/ TestSetBitOnce
    \/ TestClearBitOnce
    \/ TestSetLdo
    \/ TestSetGain
    \/ TestSetSampleRate

SpecHelper == InitField /\ [][NextHelper]_vars

(***************************************************************************)
(* C11: get_register of any register is one transaction that writes the    *)
(* register's address and reads one byte, and it ends in one of two ways:  *)
(* with the byte the device holds in that register, or, when the           *)
(* transaction fails, with GettingRegister; in no other way.               *)
(***************************************************************************)
C11_GetRegisterTwoOutcomes ==
    op = "get_register" =>
        /\ Len(log) = 1
        /\ log[1].k = "write_read"
        /\ log[1].reg = watch.reg
        /\ \/ result = "ok" /\ log[1].ok /\ value = regs[watch.reg]
           \/ result = "GettingRegister" /\ ~log[1].ok /\ value = NoValue

(***************************************************************************)
(* C19: in set_bit, clear_bit and the field writes of the setters, a       *)
(* register read that fails is the last transaction of the call, which     *)
(* returns the read's error (GettingRegister) and leaves the register as   *)
(* it was; every write follows a successful read of the same register in   *)
(* the same call and, when the device takes it, differs from the byte     *)
(* read only in the flag or field the helper is to change.                 *)
(***************************************************************************)
ReadModifyWrites == {"set_bit", "clear_bit", "set_gain", "set_sample_rate", "set_ldo"}

\* the bits the write at place i of the log may change
MayChange(i) ==
    CASE op \in {"set_bit", "clear_bit"} -> {watch.bit}
      [] op = "set_gain" -> 0 .. 2
      [] op = "set_sample_rate" -> 4 .. 6
      [] op = "set_ldo" /\ log[i].reg = "Ctrl1" -> 3 .. 5
      [] OTHER -> {7}

C19_WriteFollowsRead ==
    op \in ReadModifyWrites =>
        /\ \A i \in Of("write") :
              /\ i > 1
              /\ log[i - 1].k = "write_read"
              /\ log[i - 1].ok
              /\ log[i - 1].reg = log[i].reg
              /\ log[i].ok =>
                    \A b \in (0 .. 7) \ MayChange(i) :
                        Bit(log[i].val, b) = Bit(log[i - 1].val, b)
        /\ \A i \in Of("write_read") :
              ~log[i].ok => i = Len(log) /\ result = "GettingRegister"

\* a call that the failure of a read ended left the register it read as it was
C19_FailedReadKeepsRegister ==
    (op = "none" /\ op' \in ReadModifyWrites /\ result' = "GettingRegister") =>
        LET r == log'[Len(log')].reg IN regs'[r] = regs[r]

C19_NoWriteAfterFailedRead ==
    [](C19_WriteFollowsRead) /\ [][C19_FailedReadKeepsRegister]_vars

\* the read of set_bit failed, and the read of set_ldo's set_bit after its
\* field write
C19_Witness ==
    /\ result = "GettingRegister"
    /\ \/ op = "set_bit" /\ Len(log) = 1
       \/ op = "set_ldo" /\ Len(log) = 3

(***************************************************************************)
(* C12: when new (new_with_settings with the default settings) ends, no    *)
(* transaction having failed and the device having shown the power-up      *)
(* ready bit set and the calibration start and error bits clear at every   *)
(* check, it has returned Ok and the caller holds a handle; and a read on  *)
(* a handle that finds the conversion-ready bit set at its first poll      *)
(* returns a value after that one poll and no wait.                        *)
(***************************************************************************)
\* the device was ready at every check the log shows
Cooperative ==
    /\ Failed = {}
    /\ \A i \in PuPolls : PuSet(i)
    /\ \A i \in StartReads : Bit(log[i].val, Cals) = 0
    /\ \A i \in ErrorReads : Bit(log[i].val, CalError) = 0
    /\ \A i \in ReadPolls : op = "read" => CrSet(i)

C12_NewReturnsHandle ==
    (op = "new" /\ args = DefaultSettings /\ pc # "idle" /\ pc' = "idle" /\ Cooperative') =>
        result' = "ok" /\ handle'

C12_FirstReadPollsOnce ==
    (handle /\ op = "read" /\ pc = "idle" /\ Cooperative) =>
        /\ result = "ok"
        /\ value # NoValue
        /\ Cardinality(ReadPolls) = 1
        /\ Of("delay") = {}

C12_EndToEnd == [][C12_NewReturnsHandle]_vars /\ [](C12_FirstReadPollsOnce)

(***************************************************************************)
(* C13: a call of new (which runs power_up and calibrate), of read or of   *)
(* calibrate that has ended has returned: Ok or one of the driver's        *)
(* errors, which for power_up's and read's loops include the error of      *)
(* their attempt cap.                                                      *)
(***************************************************************************)
\* what a function of the driver can return: Ok or one of the Error variants
Returns ==
    {"ok", "PowerupFailed", "ReadTimeout", "CalibrationFailure", "GettingRegister",
     "SettingRegister", "RequestingRegister", "ReadingData"}

C13_EndedCallsHaveReturned ==
    (op \in {"new", "read", "calibrate"} /\ pc = "idle") => result \in Returns

(***************************************************************************)
(* C14: calibrate's loop has no cap.  However many status checks have      *)
(* found the start bit set (none, one, ..., as many as the model follows), *)
(* as long as no check has found it clear and no transaction has failed    *)
(* calibrate has not returned and is about to check again; it has waited   *)
(* 1 ms after each such check and after nothing else, and whatever follows *)
(* a wait is the next check.  calibrate never ends in a time-out.          *)
(***************************************************************************)
\* the status checks that found the calibration in progress
InProgress == {i \in StartReads : log[i].ok /\ Bit(log[i].val, Cals) = 1}

CalWaits == {i \in Of("delay") : log[i].step = "calibrate"}

\* calibrate has set the start bit
CalStarted == \E i \in Of("write") : log[i].step = "calibrate" /\ log[i].ok

C14_CalibrateHasNoCap ==
    op \in {"new", "calibrate"} =>
        /\ Cardinality(CalWaits) = Cardinality(InProgress)
        /\ \A i \in CalWaits :
              /\ log[i].val = 1000
              /\ i - 1 \in InProgress
              /\ i < Len(log) => i + 1 \in StartReads
        /\ (CalStarted /\ StartReads = InProgress) =>
              /\ pc = "calibrate_loop"
              /\ result = "none"
              /\ attempt = Cardinality(InProgress)
        /\ (Len(log) > 0 /\ log[Len(log)].step = "calibrate") =>
              result \notin {"ReadTimeout", "PowerupFailed"}

\* two checks in a row found the calibration in progress
C14_Witness ==
    /\ op = "calibrate"
    /\ pc = "calibrate_loop"
    /\ Cardinality(InProgress) = 2
    /\ Cardinality(CalWaits) = 2

(***************************************************************************)
(* power_up in the log of a construction.                                  *)
(***************************************************************************)
\* the entries of power_up, in order
PuEntries == {i \in DOMAIN log : log[i].step = "power_up"}

\* the 200 us wait: the first wait of power_up
PuSettle == {i \in PuEntries : log[i].k = "delay" /\ \A j \in PuEntries : j < i => log[j].k # "delay"}

\* the number of the ready-bit check at place i, counted from 0
CheckNo(i) == Cardinality({j \in PuPolls : j < i})

\* the wait between the check at place i and whatever came before it, the
\* 200 us wait not counted
ExtraWaitBefore(i) ==
    IF log[i - 1].k = "delay" /\ i - 1 \notin PuSettle THEN log[i - 1].val ELSE 0

\* power_up sets PUD, then PUA, then waits 200 us, and polls only after that
C15_SettleThenPoll ==
    LET w == {i \in PuEntries : log[i].k = "write" /\ log[i].ok}
    IN  /\ \A i \in w :
              IF \A j \in w : i <= j
              THEN Bit(log[i].val, PUD) = 1
              ELSE Bit(log[i].val, PUA) = 1 /\ Bit(log[i].val, PUD) = 1
        /\ Cardinality(w) <= 2
        /\ \A i \in PuSettle :
              /\ log[i].val = 200
              /\ Cardinality(w) = 2
              /\ \A j \in w : j < i
        /\ \A i \in PuPolls :
              /\ CheckNo(i) \in 0 .. 4
              /\ \E j \in PuSettle : j < i
              /\ CheckNo(i) = 0 => i - 1 \in PuSettle

(***************************************************************************)
(* C15 as stated: power_up sets PUD, then PUA, waits 200 us and then       *)
(* polls, and the N-th check of the ready bit (N = 0..4) comes after an    *)
(* extra wait of 5 * N us.                                                 *)
(***************************************************************************)
C15_BackoffBeforeCheck ==
    op = "new" =>
        /\ C15_SettleThenPoll
        /\ \A i \in PuPolls : ExtraWaitBefore(i) = 5 * CheckNo(i)

(***************************************************************************)
(* C15 amended: power_up sets PUD, then PUA, waits 200 us and then polls.  *)
(* The wait of 5 * N us comes after the N-th check, when that check found  *)
(* the ready bit clear: check 0 follows the 200 us wait at once, check N   *)
(* (N = 1..4) follows a wait of 5 * (N - 1) us (so check 1 follows check 0 *)
(* with a wait of zero), and a wait of 20 us follows the fifth check       *)
(* before power_up fails with PowerupFailed.                               *)
(***************************************************************************)
C15_BackoffAfterCheck ==
    op = "new" =>
        /\ C15_SettleThenPoll
        /\ \A i \in PuPolls :
              /\ ExtraWaitBefore(i) = IF CheckNo(i) = 0 THEN 0 ELSE 5 * (CheckNo(i) - 1)
              /\ CheckNo(i) > 0 => log[i - 1].k = "delay"
              /\ PuClear(i) =>
                    /\ i < Len(log)
                    /\ log[i + 1].k = "delay"
                    /\ log[i + 1].step = "power_up"
                    /\ log[i + 1].val = 5 * CheckNo(i)
              /\ ~PuClear(i) =>
                    \A j \in PuEntries : j <= i
        /\ Cardinality({i \in PuEntries : log[i].k = "delay"})
              = Cardinality(PuSettle) + Cardinality({i \in PuPolls : PuClear(i)})

\* five checks found the ready bit clear: the last wait, of 20 us, was made
\* after the fifth
C15_Witness ==
    /\ op = "new"
    /\ result = "PowerupFailed"
    /\ Cardinality(PuPolls) = 5
    /\ log[Len(log)].k = "delay"
    /\ log[Len(log)].val = 20
    /\ log[Len(log) - 1].k = "write_read"

(***************************************************************************)
(* C16: on a handle that new has returned, set_gain is one read and one    *)
(* write of Ctrl1 and set_sample_rate one read and one write of Ctrl2;     *)
(* set_ldo is one read and one write of Ctrl1 and then, only when that     *)
(* write went through, one read and one write of PuCtrl that sets AVDDS    *)
(* and changes no other bit.  The three issue nothing else: no wait, no    *)
(* write of the reset bit, no poll of the ready bit, no write of Adc or    *)
(* PgaPwr, no write of the calibration start bit.                          *)
(***************************************************************************)
Setters == {"set_gain", "set_sample_rate", "set_ldo"}

\* the log is a prefix of reads and writes of the registers in rs, two by
\* two, and it is the whole of it when the call has ended without a failure
ReadWritePairs(rs) ==
    /\ Len(log) <= 2 * Len(rs)
    /\ \A i \in DOMAIN log :
          /\ log[i].reg = rs[(i + 1) \div 2]
          /\ log[i].k = IF i % 2 = 1 THEN "write_read" ELSE "write"
          /\ i > 1 => log[i - 1].ok
    /\ (pc = "idle" /\ Failed = {}) => Len(log) = 2 * Len(rs) /\ result = "ok"

C16_SettersWriteOnlyTheirField ==
    (handle /\ op \in Setters) =>
        /\ op = "set_gain" => ReadWritePairs(<<"Ctrl1">>)
        /\ op = "set_sample_rate" =>
              /\ ReadWritePairs(<<"Ctrl2">>)
              /\ (Len(log) = 2 /\ log[2].ok) =>
                    Bit(log[2].val, Cals) = Bit(log[1].val, Cals)
        /\ op = "set_ldo" =>
              /\ ReadWritePairs(<<"Ctrl1", "PuCtrl">>)
              /\ (Len(log) = 4 /\ log[4].ok) =>
                    /\ Bit(log[4].val, AVDDS) = 1
                    /\ \A b \in 0 .. 6 : Bit(log[4].val, b) = Bit(log[3].val, b)
        /\ pc \in {"idle", op}

\* the field write of set_ldo failed: PuCtrl was neither read nor written
C16_Witness ==
    /\ handle
    /\ bringup.calibrated
    /\ op = "set_ldo"
    /\ pc = "idle"
    /\ Len(log) = 2
    /\ ~log[2].ok
    /\ result = "SettingRegister"

(***************************************************************************)
(* C17: read_unchecked writes the address of AdcoB2 and then, only when    *)
(* that write went through, reads three bytes, once.  A failed address     *)
(* write ends the read with RequestingRegister and no 3-byte read, a       *)
(* failed 3-byte read ends it with ReadingData, and in both cases the      *)
(* caller gets no value; a value comes only with a 3-byte read that went   *)
(* through.                                                                *)
(***************************************************************************)
C17_PrimeThenBurst ==
    op = "read" =>
        /\ Cardinality(Of("request")) <= 1
        /\ Cardinality(Of("read3")) <= 1
        /\ \A i \in Of("request") :
              /\ log[i].reg = "AdcoB2"
              /\ log[i].step = "read_unchecked"
              /\ i > 1 /\ i - 1 \in ReadPolls /\ CrSet(i - 1)
              /\ log[i].ok => i + 1 = Len(log) /\ log[i + 1].k = "read3"
              /\ ~log[i].ok =>
                    /\ i = Len(log)
                    /\ Of("read3") = {}
                    /\ pc = "idle"
                    /\ result = "RequestingRegister"
                    /\ value = NoValue
        /\ \A i \in Of("read3") :
              /\ i = Len(log)
              /\ log[i - 1].k = "request" /\ log[i - 1].ok
              /\ pc = "idle"
              /\ ~log[i].ok => result = "ReadingData" /\ value = NoValue
              /\ log[i].ok => result = "ok" /\ value # NoValue
        /\ value # NoValue => \E i \in Of("read3") : log[i].ok

\* the address write failed
C17_Witness ==
    /\ op = "read"
    /\ result = "RequestingRegister"
    /\ Of("request") # {}
    /\ Of("read3") = {}

(***************************************************************************)
(* C18: a poll of the power-up, calibration or conversion-ready loop whose *)
(* transaction fails is the last thing its call does: nothing is issued    *)
(* after it, neither a poll nor a wait nor another transaction, the call   *)
(* has ended, and its result is the error that wraps the transport's       *)
(* (GettingRegister), not PowerupFailed, CalibrationFailure or ReadTimeout;*)
(* a constructor that ended so has handed out no handle and a read no      *)
(* value.                                                                  *)
(***************************************************************************)
\* the polls of the loops of the call in progress
LoopPolls == IF op = "read" THEN ReadPolls ELSE PuPolls \cup StatusReads

C18_PollErrorEndsCall ==
    op \in {"new", "read", "calibrate"} =>
        \A i \in LoopPolls :
            ~log[i].ok =>
                /\ i = Len(log)
                /\ pc = "idle"
                /\ result = "GettingRegister"
                /\ value = NoValue
                /\ op = "new" => ~handle
                /\ Cardinality(Failed) = 1

\* the third poll of a read failed, after two that found no data
C18_Witness ==
    /\ op = "read"
    /\ result = "GettingRegister"
    /\ Cardinality(ReadPolls) = 3
    /\ Cardinality(Of("delay")) = 2

(***************************************************************************)
(* Tests of sequences of calls: up to MaxCalls calls of set_gain, set_ldo, *)
(* set_sample_rate and of calibrate's write of the start bit, in any       *)
(* order, on registers that nothing but these calls changes.               *)
(***************************************************************************)
\* no field was set yet; high: bits 6-7 of Ctrl1 before the first call
Recent(v) == [gain |-> {}, ldo |-> {}, sps |-> {}, high |-> v \div 64, calls |-> 0]

InitSeq ==
    /\ variant \in Variants
    /\ \E v \in InitBytes : regs = [r \in Registers |-> v] /\ watch = Recent(v)
    /\ op = "none"
    /\ pc = "idle"
    /\ args = NoArgs
    /\ attempt = 0
    /\ log = <<>>
    /\ result = "none"
    /\ value = NoValue
    /\ handle = TRUE
    /\ bringup = NoBringup

\* watch after a call that was to set field to v and left the machine m: a
\* call that failed after it had written to the device (set_ldo, when the
\* write of AVDDS fails) leaves nothing known of the field
Called(field, v, m) ==
    [watch EXCEPT !.calls = @ + 1,
                  ![field] = IF m.res = "ok" THEN {v}
                             ELSE IF m.regs = regs THEN @
                             ELSE {}]

SeqSetGain ==
    /\ watch.calls < MaxCalls
    /\ \E gain \in GainChoices, f \in 0 .. 2 :
          LET m == set_gain(Machine(variant, regs, <<>>, f, "set_gain"), gain)
          IN  Tested("set_gain", [NoArgs EXCEPT !.gain = gain], m, NoValue,
                     Called("gain", gain, m))

SeqSetLdo ==
    /\ watch.calls < MaxCalls
    /\ \E ldo \in LdoChoices, f \in 0 .. 4 :
          LET m == set_ldo(Machine(variant, regs, <<>>, f, "set_ldo"), ldo)
          IN  Tested("set_ldo", [NoArgs EXCEPT !.ldo = ldo], m, NoValue,
                     Called("ldo", ldo, m))

SeqSetSampleRate ==
    /\ watch.calls < MaxCalls
    /\ \E sps \in SpsChoices, f \in 0 .. 2 :
          LET m == set_sample_rate(Machine(variant, regs, <<>>, f, "set_sample_rate"), sps)
          IN  Tested("set_sample_rate", [NoArgs EXCEPT !.sps = sps], m, NoValue,
                     Called("sps", sps, m))

\* calibrate's write of the start bit
SeqCalibrateStart ==
    /\ watch.calls < MaxCalls
    /\ \E f \in 0 .. 2 :
          Tested("calibrate", NoArgs, calibrate(Machine(variant, regs, <<>>, f, "calibrate")),
                 NoValue, [watch EXCEPT !.calls = @ + 1])

NextSeq ==
    \/ SeqSetGain
    \/ SeqSetLdo
    \/ SeqSetSampleRate
    \/ SeqCalibrateStart

SpecSeq == InitSeq /\ [][NextSeq]_vars

(***************************************************************************)
(* C20: after any sequence of set_gain and set_ldo calls, bits 0-2 of      *)
(* Ctrl1 hold the value of the last set_gain that returned Ok, bits 3-5    *)
(* the value of the last set_ldo that returned Ok, and bits 6-7 are as     *)
(* before the sequence; after any sequence of set_sample_rate calls and    *)
(* calibration starts, bits 4-6 of Ctrl2 hold the value of the last        *)
(* set_sample_rate that returned Ok.                                       *)
(***************************************************************************)
C20_FieldsHoldLastSetting ==
    /\ \A g \in watch.gain : regs["Ctrl1"] % 8 = g
    /\ \A l \in watch.ldo : (regs["Ctrl1"] \div 8) % 8 = l
    /\ regs["Ctrl1"] \div 64 = watch.high
    /\ \A r \in watch.sps : (regs["Ctrl2"] \div 16) % 8 = r

\* set_ldo(3) and then set_gain(7), the third call of a sequence, on a Ctrl1
\* of all ones; and a calibration start after set_sample_rate(0)
C20_Witness ==
    \/ /\ op = "set_gain"
       /\ result = "ok"
       /\ watch.calls = 3
       /\ watch.gain = {7}
       /\ watch.ldo = {3}
       /\ regs["Ctrl1"] = 223
    \/ /\ op = "calibrate"
       /\ result = "ok"
       /\ watch.sps = {0}
       /\ regs["Ctrl2"] = 143

====
